---- MODULE Spec2Model ----
(***************************************************************************)
(* Model of asyncy-psql (src/app.py): the filter compiler QueryBuilder,    *)
(* the InsertBuilder, check_valid_sql_ident and the select / update /      *)
(* delete / insert statement templates.                                    *)
(*                                                                         *)
(* SQL text is a sequence of characters (one-character strings), so that   *)
(* an interpolated key is part of the text exactly as an f-string makes    *)
(* it.  A JSON object is read in insertion order, entry by entry, as       *)
(* dict.items() yields it; a JSON value is a record [t, n]: an integer n,  *)
(* a list of n elements, or an object of n entries.                        *)
(***************************************************************************)
EXTENDS Integers, Sequences, FiniteSets, TLC

VARIABLES pc, route, where, columns, values, stack, params, current_column,
          budget, fault, query, update_str, update_params, sql, sql_params,
          is_list, ib, ident, ident_result

vars == <<pc, route, where, columns, values, stack, params, current_column,
          budget, fault, query, update_str, update_params, sql, sql_params,
          is_list, ib, ident, ident_result>>

(***************************************************************************)
(* Bounds                                                                  *)
(***************************************************************************)
\* entries (keys) of one request's filter, all nesting levels together
MaxNodes == 3
\* rows of one insert request
MaxRows == 3
\* characters of an identifier handed to check_valid_sql_ident
MaxIdentLen == 3

(***************************************************************************)
(* Python's None and optional values                                       *)
(***************************************************************************)
None == <<>>
Some(x) == <<x>>

(***************************************************************************)
(* Text literals of the f-strings                                          *)
(***************************************************************************)
S_AND == <<"A", "N", "D">>
S_OR == <<"O", "R">>
S_SP == <<" ">>
S_QUOTE == <<"\"">>
S_COMMA == <<",">>
S_PH == <<"%", "s">>
S_EQ_PH == <<"=", "%", "s">>
S_ASSIGN == <<"\"", " ", "=", " ", "%", "s">>
S_WHERE_OPEN == <<"W", "H", "E", "R", "E", " ", "(">>
S_CLOSE == <<")">>
S_OPEN == <<"(">>
S_DELETE_FROM == <<"D", "E", "L", "E", "T", "E", " ", "F", "R", "O", "M", " ">>
S_RETURNING == <<"R", "E", "T", "U", "R", "N", "I", "N", "G", " ", "*">>
S_SELECT == <<"S", "E", "L", "E", "C", "T", " ">>
S_STAR == <<"*">>
S_FROM == <<" ", "F", "R", "O", "M", " ">>
S_UPDATE == <<"U", "P", "D", "A", "T", "E", " ">>
S_SET == <<" ", "S", "E", "T", " ">>
S_INSERT_INTO == <<"I", "N", "S", "E", "R", "T", " ", "I", "N", "T", "O", " ">>
S_VALUES == <<" ", "V", "A", "L", "U", "E", "S", " ">>

\* str.join
RECURSIVE Join(_, _)
Join(sep, parts) ==
    IF parts = <<>> THEN <<>>
    ELSE IF Len(parts) = 1 THEN parts[1]
    ELSE parts[1] \o sep \o Join(sep, Tail(parts))

\* number of positional placeholders the driver finds in a statement text
CountPlaceholders(text) ==
    Cardinality({i \in 1..(Len(text) - 1) : text[i] = "%" /\ text[i + 1] = "s"})

\* the statement text contains a WHERE clause
HasWhere(text) ==
    \E i \in 1..(Len(text) - 6) : SubSeq(text, i, i + 6) = S_WHERE_OPEN

(***************************************************************************)
(* Keys and values of the request body                                     *)
(***************************************************************************)
K_and == <<"$", "a", "n", "d">>
K_or == <<"$", "o", "r">>
K_gt == <<"$", "g", "t">>
K_gte == <<"$", "g", "t", "e">>
K_lt == <<"$", "l", "t">>
K_lte == <<"$", "l", "t", "e">>
K_eq == <<"$", "e", "q">>
K_a == <<"a">>
K_b == <<"b">>
\* a key is any JSON string: this one contains the characters % and s
K_pct == <<"%", "s">>

Table == <<"t">>

JInt(i) == [t |-> "int", n |-> i]
JList(n) == [t |-> "list", n |-> n]
JDict(n) == [t |-> "dict", n |-> n]

Scalars == {1, 2}

\* the values an entry of the filter can carry when b more entries fit
FilterValues(b) ==
    {JInt(i) : i \in Scalars} \cup {JList(2)} \cup {JDict(m) : m \in 0..b}

FilterKeys == {K_a, K_b, K_pct, K_and, K_or, K_gt, K_gte, K_lt, K_lte, K_eq}

\* code points, for Python's string comparison
Code(c) ==
    CASE c = "%" -> 37 [] c = "a" -> 97 [] c = "b" -> 98 [] c = "s" -> 115
      [] OTHER -> 0

RECURSIVE StrLess(_, _)
StrLess(x, y) ==
    IF y = <<>> THEN FALSE
    ELSE IF x = <<>> THEN TRUE
    ELSE IF Code(x[1]) # Code(y[1]) THEN Code(x[1]) < Code(y[1])
    ELSE StrLess(Tail(x), Tail(y))

\* sorted(d.items()): the (key, value) pairs in ascending key order
RECURSIVE InsertItem(_, _)
InsertItem(it, sortedItems) ==
    IF sortedItems = <<>> THEN <<it>>
    ELSE IF StrLess(it[1], sortedItems[1][1]) THEN <<it>> \o sortedItems
    ELSE <<sortedItems[1]>> \o InsertItem(it, Tail(sortedItems))

RECURSIVE SortedItems(_)
SortedItems(items) ==
    IF items = <<>> THEN <<>>
    ELSE InsertItem(items[1], SortedItems(Tail(items)))

\* map(lambda x: x[1], items)
ItemValues(items) == [i \in 1..Len(items) |-> items[i][2]]

\* insertion-ordered objects over a key set, values from Scalars
RECURSIVE DictsOver(_)
DictsOver(keys) ==
    {<<>>} \cup
    UNION {{<<<<k, JInt(i)>>>> \o rest : rest \in DictsOver(keys \ {k})} :
           <<k, i>> \in keys \X Scalars}

(***************************************************************************)
(* check_valid_sql_ident                                                   *)
(***************************************************************************)
AsciiLetters == {"a", "b", "s"}
AsciiDigits == {"1"}
\* U+00E9 (e with acute) and U+0436 (Cyrillic zhe)
UnicodeLetters == {"U+00E9", "U+0436"}

\* str.isalnum of one character
isalnum(c) == c \in AsciiLetters \cup AsciiDigits \cup UnicodeLetters

\* ident is None (not a str) or Some(text)
check_valid_sql_ident(id) ==
    IF id = None \/ Len(id[1]) = 0 THEN FALSE
    ELSE IF ~isalnum(id[1][1]) THEN FALSE
    ELSE \A i \in 1..Len(id[1]) : isalnum(id[1][i]) \/ id[1][i] \in {"_", "$"}

(***************************************************************************)
(* QueryBuilder                                                            *)
(***************************************************************************)
\* the table with the entries of $gte and $gt exchanged
operators_swapped ==
    (K_gt :> <<">", "=">>) @@ (K_gte :> <<">">>) @@ (K_lt :> <<"<">>) @@
    (K_lte :> <<"<", "=">>) @@ (K_eq :> <<"=">>)

operators ==
    (K_gt :> <<">">>) @@ (K_gte :> <<">", "=">>) @@ (K_lt :> <<"<">>) @@
    (K_lte :> <<"<", "=">>) @@ (K_eq :> <<"=">>)

NoKey == <<>>
NoValue == JInt(0)

\* the activation of one build() call, made by group(value, action)
Frame(kind, action, n) ==
    [kind |-> kind, action |-> action, remaining |-> n, used |-> {},
     query |-> <<>>, k |-> NoKey, v |-> NoValue, old_current_column |-> None]

Top == stack[Len(stack)]
Parent == stack[Len(stack) - 1]

SetTop(f) == [stack EXCEPT ![Len(stack)] = f]

\* the text QueryBuilder.op returns
op(o, column) == S_QUOTE \o column \o S_QUOTE \o S_SP \o operators[o] \o S_SP \o S_PH

\* the text group() returns for the list build() produced
group(parts, action) == Join(S_SP \o action \o S_SP, parts)

Raise(e) ==
    /\ pc' = "fault"
    /\ fault' = e
    /\ UNCHANGED <<route, where, columns, values, stack, params, current_column,
                   budget, query, update_str, update_params, sql, sql_params>>

\* QueryBuilder.build_query, up to the call of builder.group(where, 'AND')
build_query ==
    IF where' = None \/ where'[1].n = 0
    THEN /\ query' = [query |-> <<>>, params |-> <<>>]
         /\ stack' = <<>>
         /\ budget' = 0
         /\ pc' = "compiled"
    ELSE /\ query' = query
         /\ stack' = <<Frame("root", S_AND, where'[1].n)>>
         /\ budget' = MaxNodes - where'[1].n
         /\ pc' = "loop"

\* for k, v in where.items()
Iterate ==
    /\ UNCHANGED <<is_list, ib, ident, ident_result>>
    /\ pc = "loop"
    /\ Top.remaining > 0
    /\ \E k \in FilterKeys \ Top.used, v \in FilterValues(budget) :
          /\ stack' = SetTop([Top EXCEPT !.k = k, !.v = v,
                                         !.remaining = @ - 1,
                                         !.used = @ \cup {k}])
          /\ budget' = IF v.t = "dict" THEN budget - v.n ELSE budget
    /\ pc' = "dispatch"
    /\ UNCHANGED <<route, where, columns, values, params, current_column, fault,
                   query, update_str, update_params, sql, sql_params>>

\* self.group(v, action) entering self.build(value)
EnterGroup(action) ==
    IF Top.v.t # "dict"
    THEN Raise("AttributeError")
    ELSE /\ stack' = Append(stack, Frame("group", action, Top.v.n))
         /\ pc' = "loop"
         /\ UNCHANGED <<route, where, columns, values, params, current_column,
                        budget, fault, query, update_str, update_params, sql,
                        sql_params>>

\* if k == '$and'
GroupAnd ==
    /\ UNCHANGED <<is_list, ib, ident, ident_result>>
    /\ pc = "dispatch"
    /\ Top.k = K_and
    /\ EnterGroup(S_AND)

\* the $or branch passing 'AND' to group()
GroupOr_and ==
    /\ UNCHANGED <<is_list, ib, ident, ident_result>>
    /\ pc = "dispatch"
    /\ Top.k = K_or
    /\ EnterGroup(S_AND)

\* elif k == '$or'
GroupOr ==
    /\ UNCHANGED <<is_list, ib, ident, ident_result>>
    /\ pc = "dispatch"
    /\ Top.k = K_or
    /\ EnterGroup(S_OR)

\* if k in QueryBuilder.operators: query.append(self.op(k, v))
Operator ==
    /\ UNCHANGED <<is_list, ib, ident, ident_result>>
    /\ pc = "dispatch"
    /\ Top.k \notin {K_and, K_or}
    /\ Top.k \in DOMAIN operators
    /\ IF current_column = None
       THEN Raise("AssertionError")
       ELSE /\ params' = Append(params, Top.v)
            /\ stack' = SetTop([Top EXCEPT
                                  !.query = Append(@, op(Top.k, current_column[1]))])
            /\ pc' = "loop"
            /\ UNCHANGED <<route, where, columns, values, current_column, budget,
                           fault, query, update_str, update_params, sql,
                           sql_params>>

\* the column branch without its assertion
Column_unguarded ==
    /\ UNCHANGED <<is_list, ib, ident, ident_result>>
    /\ pc = "dispatch"
    /\ Top.k \notin {K_and, K_or}
    /\ Top.k \notin DOMAIN operators
    /\ Top.v.t = "dict"
    /\ current_column' = Some(Top.k)
    /\ stack' = Append(SetTop([Top EXCEPT
                                 !.old_current_column = current_column]),
                       Frame("column", S_AND, Top.v.n))
    /\ pc' = "loop"
    /\ UNCHANGED <<route, where, columns, values, params, budget, fault,
                   query, update_str, update_params, sql, sql_params>>

\* elif isinstance(v, dict): open the column scope k
Column ==
    /\ UNCHANGED <<is_list, ib, ident, ident_result>>
    /\ pc = "dispatch"
    /\ Top.k \notin {K_and, K_or}
    /\ Top.k \notin DOMAIN operators
    /\ Top.v.t = "dict"
    /\ IF current_column # None
       THEN Raise("AssertionError")
       ELSE /\ current_column' = Some(Top.k)
            /\ stack' = Append(SetTop([Top EXCEPT
                                         !.old_current_column = current_column]),
                               Frame("column", S_AND, Top.v.n))
            /\ pc' = "loop"
            /\ UNCHANGED <<route, where, columns, values, params, budget, fault,
                           query, update_str, update_params, sql, sql_params>>

\* else: query.append(f'{k}=%s'); self.params.append(v)
Equality ==
    /\ UNCHANGED <<is_list, ib, ident, ident_result>>
    /\ pc = "dispatch"
    /\ Top.k \notin {K_and, K_or}
    /\ Top.k \notin DOMAIN operators
    /\ Top.v.t # "dict"
    /\ stack' = SetTop([Top EXCEPT !.query = Append(@, Top.k \o S_EQ_PH)])
    /\ params' = Append(params, Top.v)
    /\ pc' = "loop"
    /\ UNCHANGED <<route, where, columns, values, current_column, budget, fault,
                   query, update_str, update_params, sql, sql_params>>

\* the caller's frame after query.append(self.group(v, action)) returned
Returned ==
    Append(SubSeq(stack, 1, Len(stack) - 2),
           [Parent EXCEPT !.query = Append(@, group(Top.query, Top.action))])

\* build() of a $and / $or group returns
GroupReturn ==
    /\ UNCHANGED <<is_list, ib, ident, ident_result>>
    /\ pc = "loop"
    /\ Top.remaining = 0
    /\ Top.kind = "group"
    /\ stack' = Returned
    /\ UNCHANGED <<pc, route, where, columns, values, params, current_column,
                   budget, fault, query, update_str, update_params, sql,
                   sql_params>>

\* the column branch without the restoring assignment
ColumnReturn_dangling ==
    /\ UNCHANGED <<is_list, ib, ident, ident_result>>
    /\ pc = "loop"
    /\ Top.remaining = 0
    /\ Top.kind = "column"
    /\ stack' = Returned
    /\ UNCHANGED <<pc, route, where, columns, values, params, current_column,
                   budget, fault, query, update_str, update_params, sql,
                   sql_params>>

\* build() of a column scope returns: self.current_column = old_current_column
ColumnReturn ==
    /\ UNCHANGED <<is_list, ib, ident, ident_result>>
    /\ pc = "loop"
    /\ Top.remaining = 0
    /\ Top.kind = "column"
    /\ stack' = Returned
    /\ current_column' = Parent.old_current_column
    /\ UNCHANGED <<pc, route, where, columns, values, params, budget, fault,
                   query, update_str, update_params, sql, sql_params>>

\* builder.group(where, 'AND') returns to build_query
BuildQueryReturn ==
    /\ UNCHANGED <<is_list, ib, ident, ident_result>>
    /\ pc = "loop"
    /\ Top.remaining = 0
    /\ Top.kind = "root"
    /\ query' = [query |-> group(Top.query, Top.action), params |-> params]
    /\ stack' = <<>>
    /\ pc' = "compiled"
    /\ UNCHANGED <<route, where, columns, values, params, current_column, budget,
                   fault, update_str, update_params, sql, sql_params>>

(***************************************************************************)
(* The select, delete and update handlers                                  *)
(***************************************************************************)
\* req.get('where'): null / absent, or an object of n entries
WhereSet == {None} \cup {Some(JDict(n)) : n \in 0..MaxNodes}

\* req.get('columns'): None or a list of column names
ColumnsSet == {None, Some(<<Some(K_a)>>), Some(<<Some(K_a), Some(<<"a", " ">>)>>)}

\* req['values'] of an update: one column, or two in either insertion order
UpdateValues ==
    {<<<<K_a, JInt(1)>>>>,
     <<<<K_a, JInt(1)>>, <<K_b, JInt(2)>>>>,
     <<<<K_b, JInt(1)>>, <<K_a, JInt(2)>>>>}

Quoted(name) == S_QUOTE \o name \o S_QUOTE


\* select(), up to the entry of build_query
SelectBegin ==
    /\ UNCHANGED <<is_list, ib, ident, ident_result>>
    /\ pc = "idle"
    /\ \E w \in WhereSet, c \in ColumnsSet :
          /\ route' = "select"
          /\ where' = w
          /\ columns' = c
          /\ IF c # None /\ \E i \in 1..Len(c[1]) : ~check_valid_sql_ident(c[1][i])
             THEN /\ pc' = "fault"
                  /\ fault' = "AssertionError"
                  /\ UNCHANGED <<stack, budget, query>>
             ELSE /\ build_query
                  /\ fault' = fault
    /\ params' = <<>>
    /\ current_column' = None
    /\ UNCHANGED <<values, update_str, update_params, sql, sql_params>>

\* select(), from the return of build_query
SelectEnd ==
    /\ UNCHANGED <<is_list, ib, ident, ident_result>>
    /\ pc = "compiled"
    /\ route = "select"
    /\ LET cols == IF columns = None THEN S_STAR
                   ELSE Join(S_COMMA, [i \in 1..Len(columns[1]) |-> Quoted(columns[1][i][1])])
           head == S_SELECT \o cols \o S_FROM \o Table
       IN  sql' = IF Len(query.params) > 0
                  THEN head \o S_SP \o S_WHERE_OPEN \o query.query \o S_CLOSE
                  ELSE head
    /\ sql_params' = query.params
    /\ pc' = "done"
    /\ UNCHANGED <<route, where, columns, values, stack, params, current_column,
                   budget, fault, query, update_str, update_params>>

\* delete(), up to the entry of build_query
DeleteBegin ==
    /\ UNCHANGED <<is_list, ib, ident, ident_result>>
    /\ pc = "idle"
    /\ \E w \in WhereSet :
          /\ route' = "delete"
          /\ where' = w
          /\ build_query
    /\ params' = <<>>
    /\ current_column' = None
    /\ UNCHANGED <<columns, values, fault, update_str, update_params, sql,
                   sql_params>>

\* delete(), from the return of build_query
DeleteEnd ==
    /\ UNCHANGED <<is_list, ib, ident, ident_result>>
    /\ pc = "compiled"
    /\ route = "delete"
    /\ LET where_str == IF Len(query.params) > 0
                        THEN S_WHERE_OPEN \o query.query \o S_CLOSE \o S_SP
                        ELSE <<>>
       IN  sql' = S_DELETE_FROM \o Table \o S_SP \o where_str \o S_SP \o S_RETURNING
    /\ sql_params' = query.params
    /\ pc' = "done"
    /\ UNCHANGED <<route, where, columns, values, stack, params, current_column,
                   budget, fault, query, update_str, update_params>>

\* update(), up to the entry of build_query
UpdateBegin ==
    /\ UNCHANGED <<is_list, ib, ident, ident_result>>
    /\ pc = "idle"
    /\ \E w \in WhereSet, vs \in UpdateValues :
          /\ route' = "update"
          /\ where' = w
          /\ values' = vs
          /\ update_params' = ItemValues(SortedItems(vs))
          /\ update_str' = Join(S_COMMA, [i \in 1..Len(vs) |->
                                             S_QUOTE \o SortedItems(vs)[i][1] \o S_ASSIGN])
          /\ build_query
    /\ params' = <<>>
    /\ current_column' = None
    /\ UNCHANGED <<columns, fault, sql, sql_params>>

\* update(), from the return of build_query
UpdateEnd ==
    /\ UNCHANGED <<is_list, ib, ident, ident_result>>
    /\ pc = "compiled"
    /\ route = "update"
    /\ LET where_str == IF Len(query.query) > 0
                        THEN S_WHERE_OPEN \o query.query \o S_CLOSE \o S_SP
                        ELSE <<>>
       IN  sql' = S_UPDATE \o Table \o S_SET \o update_str \o S_SP \o where_str
                  \o S_RETURNING
    /\ sql_params' = update_params \o query.params
    /\ update_params' = update_params \o query.params
    /\ pc' = "done"
    /\ UNCHANGED <<route, where, columns, values, stack, params, current_column,
                   budget, fault, query, update_str>>

(***************************************************************************)
(* InsertBuilder and the insert handler                                    *)
(***************************************************************************)
\* one row of req['values']
Rows == DictsOver({K_a, K_b})

\* add() taking the items unsorted
add_unsorted(b, row) ==
    [params |-> b.params \o ItemValues(row),
     value_strs |-> Append(b.value_strs,
                           S_OPEN \o Join(S_COMMA, [i \in 1..Len(row) |-> S_PH])
                                  \o S_CLOSE),
     first_item |-> IF b.first_item = None THEN Some(row) ELSE b.first_item]

\* InsertBuilder.add
add(b, row) ==
    LET items == SortedItems(row)
    IN  [params |-> b.params \o ItemValues(items),
         value_strs |-> Append(b.value_strs,
                               S_OPEN \o Join(S_COMMA, [i \in 1..Len(row) |-> S_PH])
                                      \o S_CLOSE),
         first_item |-> IF b.first_item = None THEN Some(items)
                        ELSE b.first_item]

\* InsertBuilder.names
names(b) == Join(S_COMMA, [i \in 1..Len(b.first_item[1]) |-> Quoted(b.first_item[1][i][1])])

\* InsertBuilder.values
values_(b) == Join(S_COMMA, b.value_strs)

\* insert(), up to the first builder.add: values is a list of n rows or one row
InsertBegin ==
    /\ UNCHANGED <<ident, ident_result>>
    /\ pc = "idle"
    /\ \E l \in BOOLEAN, n \in 0..MaxRows :
          /\ l = FALSE => n = 1
          /\ is_list' = l
          /\ budget' = n
    /\ route' = "insert"
    /\ values' = <<>>
    /\ ib' = [params |-> <<>>, value_strs |-> <<>>, first_item |-> None]
    /\ pc' = "adding"
    /\ UNCHANGED <<where, columns, stack, params, current_column, fault, query,
                   update_str, update_params, sql, sql_params>>

\* builder.add(e) for the next row e of values
InsertAdd ==
    /\ UNCHANGED <<ident, ident_result>>
    /\ pc = "adding"
    /\ budget > 0
    /\ \E row \in Rows :
          /\ ib' = add(ib, row)
          /\ values' = Append(values, row)
    /\ budget' = budget - 1
    /\ UNCHANGED <<pc, route, where, columns, stack, params, current_column,
                   fault, query, update_str, update_params, sql, sql_params,
                   is_list>>

\* insert(), from the statement text on; names() of no row iterates None
InsertEnd ==
    /\ UNCHANGED <<ident, ident_result>>
    /\ pc = "adding"
    /\ budget = 0
    /\ IF ib.first_item = None
       THEN /\ pc' = "fault"
            /\ fault' = "TypeError"
            /\ UNCHANGED <<sql, sql_params>>
       ELSE /\ sql' = S_INSERT_INTO \o Table \o S_SP \o S_OPEN \o names(ib)
                      \o S_CLOSE \o S_VALUES \o values_(ib) \o S_SP \o S_RETURNING
            /\ sql_params' = ib.params
            /\ pc' = "done"
            /\ fault' = fault
    /\ UNCHANGED <<route, where, columns, values, stack, params, current_column,
                   budget, query, update_str, update_params, is_list, ib>>

(***************************************************************************)
(* Specifications                                                          *)
(***************************************************************************)
Idle ==
    /\ pc = "idle"
    /\ route = "none"
    /\ where = None
    /\ columns = None
    /\ values = <<>>
    /\ stack = <<>>
    /\ params = <<>>
    /\ current_column = None
    /\ budget = 0
    /\ fault = "none"
    /\ query = [query |-> <<>>, params |-> <<>>]
    /\ update_str = <<>>
    /\ update_params = <<>>
    /\ sql = <<>>
    /\ sql_params = <<>>
    /\ is_list = FALSE
    /\ ib = [params |-> <<>>, value_strs |-> <<>>, first_item |-> None]
    /\ ident_result = FALSE

\* one select, delete or update request
Init ==
    /\ Idle
    /\ ident = None

Next ==
    \/ SelectBegin \/ DeleteBegin \/ UpdateBegin
    \/ Iterate
    \/ GroupAnd \/ GroupOr \/ Operator \/ Column \/ Equality
    \/ GroupReturn \/ ColumnReturn \/ BuildQueryReturn
    \/ SelectEnd \/ DeleteEnd \/ UpdateEnd

Spec == Init /\ [][Next]_vars

\* one insert request
NextInsert == InsertBegin \/ InsertAdd \/ InsertEnd

SpecInsert == Init /\ [][NextInsert]_vars

\* the arguments of check_valid_sql_ident: a non-string, or a string
IdentChars == {"a", "1", "_", "$", " ", "U+00E9", "U+0436"}

Idents ==
    {None} \cup
    {Some(str) : str \in UNION {[1..n -> IdentChars] : n \in 0..MaxIdentLen}}

InitIdent ==
    /\ Idle
    /\ ident \in Idents

\* a call of check_valid_sql_ident(ident)
CheckIdent ==
    /\ pc = "idle"
    /\ ident_result' = check_valid_sql_ident(ident)
    /\ pc' = "done"
    /\ UNCHANGED <<route, where, columns, values, stack, params, current_column,
                   budget, fault, query, update_str, update_params, sql,
                   sql_params, is_list, ib, ident>>

NextIdent == CheckIdent

SpecIdent == InitIdent /\ [][NextIdent]_vars

(***************************************************************************)
(* Properties                                                              *)
(***************************************************************************)
GroupKeys == {K_and, K_or}
ComparisonKeys == {K_gt, K_gte, K_lt, K_lte, K_eq}

\* the column whose scope encloses the innermost frame of a call stack
EnclosingColumnOf(s) ==
    LET opened == {i \in 1..(Len(s) - 1) : s[i + 1].kind = "column"}
    IN  IF opened = {} THEN None
        ELSE Some(s[CHOOSE i \in opened : \A j \in opened : j <= i].k)

\* build_query has returned
Compiled == pc \in {"compiled", "done"}

\* C1: when build_query returns, the query text holds as many %s
\* placeholders as params holds values (the count is the part of the claim
\* on which the positional binding of every value rests).
C1_ParamsAlignPlaceholders ==
    (route \in {"select", "delete", "update"} /\ Compiled)
        => CountPlaceholders(query.query) = Len(query.params)

C3_NestedColumnRejected ==
    [][/\ (pc = "dispatch" /\ Top.k \notin GroupKeys \cup ComparisonKeys
           /\ Top.v.t = "dict" /\ EnclosingColumnOf(stack) # None)
            => (pc' = "fault" /\ fault' = "AssertionError")
       /\ pc' = "fault" => (query' = [query |-> <<>>, params |-> <<>>] /\ sql' = <<>>)
       /\ pc # "fault"
      ]_vars

\* {"a": {"$and": {"b": {...}}}} failed at b
C3_Witness ==
    /\ pc = "fault"
    /\ fault = "AssertionError"
    /\ Len(stack) = 3
    /\ stack[2].kind = "column"
    /\ Top.kind = "group"
    /\ Top.k = K_b
    /\ Top.v.t = "dict"

SqlOperator(k) ==
    CASE k = K_gt -> <<">">> [] k = K_gte -> <<">", "=">> [] k = K_lt -> <<"<">>
      [] k = K_lte -> <<"<", "=">> [] k = K_eq -> <<"=">>

\* C4: an operator key inside a column scope appends '"<column>" <op> %s'
\* to the clauses and its value to params; with no column scope it fails and
\* params is untouched; the clauses of a column scope are joined with ' AND '.
C4_OperatorClause ==
    [][/\ (pc = "dispatch" /\ Top.k \in ComparisonKeys)
            => IF EnclosingColumnOf(stack) # None
               THEN /\ pc' = "loop"
                    /\ stack'[Len(stack)].query =
                         Append(Top.query,
                                <<"\"">> \o EnclosingColumnOf(stack)[1] \o <<"\"", " ">>
                                \o SqlOperator(Top.k) \o <<" ", "%", "s">>)
                    /\ params' = Append(params, Top.v)
               ELSE /\ pc' = "fault"
                    /\ params' = params
       /\ (pc = "loop" /\ Top.remaining = 0 /\ Top.kind = "column")
            => stack'[Len(stack')].query =
                 Append(Parent.query,
                        Join(<<" ", "A", "N", "D", " ">>, Top.query))
      ]_vars

\* {"a": {"$gte": 1, "$lt": 2}} compiled to '"a" >= %s AND "a" < %s', [1, 2]
C4_Witness ==
    /\ pc = "compiled"
    /\ query.query = <<"\"", "a", "\"", " ", ">", "=", " ", "%", "s",
                       " ", "A", "N", "D", " ",
                       "\"", "a", "\"", " ", "<", " ", "%", "s">>
    /\ query.params = <<JInt(1), JInt(2)>>

\* the keys of a row in ascending order, and the value a row gives a key
KeysAscending(row) ==
    LET Has(k) == \E i \in 1..Len(row) : row[i][1] = k
    IN  SelectSeq(<<K_a, K_b>>, Has)

ValueOf(row, k) == row[CHOOSE i \in 1..Len(row) : row[i][1] = k][2]

ExpectedNames(row) ==
    Join(<<",">>, [i \in 1..Len(KeysAscending(row)) |->
                     <<"\"">> \o KeysAscending(row)[i] \o <<"\"">>])

ExpectedTuples(rows) ==
    Join(<<",">>, [r \in 1..Len(rows) |->
                     <<"(">> \o Join(<<",">>, [i \in 1..Len(rows[r]) |-> <<"%", "s">>])
                             \o <<")">>])

RECURSIVE ExpectedParams(_)
ExpectedParams(rows) ==
    IF rows = <<>> THEN <<>>
    ELSE [i \in 1..Len(KeysAscending(rows[1])) |->
            ValueOf(rows[1], KeysAscending(rows[1])[i])]
         \o ExpectedParams(Tail(rows))

RECURSIVE SumKeyCounts(_)
SumKeyCounts(rows) ==
    IF rows = <<>> THEN 0 ELSE Len(rows[1]) + SumKeyCounts(Tail(rows))

\* C5: for one or more rows, the column list is the quoted ascending key list
\* of the first row, VALUES holds one tuple per row with one %s per key of
\* that row, and params is the rows' values, each row in ascending key order.
C5_InsertColumnsTuplesParams ==
    /\ (route = "insert" /\ pc = "adding")
         => /\ ib.params = ExpectedParams(values)
            /\ Len(ib.value_strs) = Len(values)
    /\ (route = "insert" /\ pc = "done")
         => /\ sql = S_INSERT_INTO \o Table \o <<" ", "(">>
                     \o ExpectedNames(values[1]) \o <<")">> \o S_VALUES
                     \o ExpectedTuples(values) \o <<" ">> \o S_RETURNING
            /\ sql_params = ExpectedParams(values)
            /\ Len(sql_params) = SumKeyCounts(values)

\* two rows inserted, the first written {"b": .., "a": ..}, the second with
\* another key set
C5_Witness ==
    /\ route = "insert"
    /\ pc = "done"
    /\ Len(values) = 2
    /\ Len(values[1]) = 2
    /\ values[1][1][1] = K_b
    /\ Len(values[2]) = 1

\* C6: check_valid_sql_ident accepts exactly the non-empty strings of ASCII
\* letters, digits, '_' and '$' that start with an ASCII letter or digit.
C6_IdentAsciiOnly ==
    pc = "done" =>
        (ident_result <=>
            /\ ident # None
            /\ Len(ident[1]) > 0
            /\ ident[1][1] \in AsciiLetters \cup AsciiDigits
            /\ \A i \in 1..Len(ident[1]) :
                  ident[1][i] \in AsciiLetters \cup AsciiDigits \cup {"_", "$"})

\* C7: a finished select, update or delete carries a WHERE clause exactly
\* when the compiled parameter list is non-empty.
C7_WhereIffParams ==
    (route \in {"select", "delete", "update"} /\ pc = "done")
        => (HasWhere(sql) <=> Len(query.params) > 0)

\* C8: at every point of a compilation the current-column slot is the column
\* of the innermost open scope (none once every scope has returned), an
\* operator key outside every scope fails with params untouched, and the
\* slot is empty when build_query has returned.
C8_ColumnSlotRestored ==
    [][/\ pc' \in {"loop", "dispatch"}
            => current_column' = EnclosingColumnOf(stack')
       /\ pc' \in {"compiled", "done"} => current_column' = None
       /\ (pc = "dispatch" /\ Top.k \in ComparisonKeys
           /\ EnclosingColumnOf(stack) = None)
            => (pc' = "fault" /\ params' = params)
      ]_vars

\* {"a": {"$gt": 1}, "$lt": ..}: the operator after the closed scope failed
C8_Witness ==
    /\ pc = "fault"
    /\ fault = "AssertionError"
    /\ Len(stack) = 1
    /\ Top.k = K_lt
    /\ Top.query = <<<<"\"", "a", "\"", " ", ">", " ", "%", "s">>>>
    /\ params = <<JInt(1)>>
    /\ current_column = None

ExpectedAssignments(row) ==
    Join(<<",">>, [i \in 1..Len(KeysAscending(row)) |->
                     <<"\"">> \o KeysAscending(row)[i]
                     \o <<"\"", " ", "=", " ", "%", "s">>])

\* C9: a finished update sets the columns in ascending order, binds the new
\* values in that order followed by the filter's params, and binds exactly
\* as many values as the statement has %s placeholders.
C9_UpdateParamsAlign ==
    (route = "update" /\ pc = "done")
        => /\ SubSeq(sql, 1, Len(S_UPDATE \o Table \o S_SET
                                 \o ExpectedAssignments(values)))
                = S_UPDATE \o Table \o S_SET \o ExpectedAssignments(values)
           /\ sql_params = ExpectedParams(<<values>>) \o query.params
           /\ Len(sql_params) = CountPlaceholders(sql)

\* C10: a finished select, update or delete whose filter was a non-empty
\* object carries a WHERE clause.
C10_NonEmptyFilterHasWhere ==
    (route \in {"select", "delete", "update"} /\ pc = "done"
     /\ where # None /\ where[1].n > 0)
        => HasWhere(sql)

====
